---- MODULE Spec2Model ----
(***************************************************************************)
(* Model of src/server.js: the three Express handlers POST /api/generate,  *)
(* POST /api/reframe and POST /api/remix.  Each handler is an async        *)
(* function; every `await` is a point where the handler is suspended and   *)
(* other requests may run, so each handler is one action per segment       *)
(* between two awaits.  The generation service (axios.post), the download  *)
(* (axios.get), the transcoder (sharp) and the media store                 *)
(* (cloudinary.uploader.upload_stream) are the environment: their outcome  *)
(* is chosen nondeterministically when the awaited promise settles.        *)
(***************************************************************************)
EXTENDS Integers, Sequences, FiniteSets, Bags, TLC

\* Number of requests the model lets arrive.
NumReqs == 2

Reqs == 1..NumReqs

\* A field that is absent from the body / a variable that was never assigned.
Undef == "undefined"

\* JavaScript truthiness of a string-or-undefined value, as used by `!x`.
Falsy(v) == v \in {Undef, ""}

\* ------------------------------------------------------------------------
\* Values the environment may supply.

\* Values a client may put in `prompt`.
Prompts == {Undef, "a red fox"}
\* Values a client may put in `image_url`.
ImageUrls == {Undef, "http://in/img"}
\* Values a client may put in `aspect_ratio`: the clients modelled leave it
\* out, and the handlers fall back on their default.
AspectRatios == {Undef}
\* req.file as left by multer: absent, or an in-memory file.
Files == {Undef, "blob"}

\* Messages carried by a rejected promise (error.message).
ErrMsgs == {"", "boom"}

\* The image URL the generation service hands request r: the service names
\* its images itself, no two requests get the same one.
GenUrl(r) == "https://ideogram/" \o ToString(r)

\* response.data of generate and remix for request r: no `images`, an empty
\* list, a list of two.
ImagesData(r) ==
    { << >>,
      [images |-> << >>],
      [images |-> <<GenUrl(r), "https://ideogram/second">>] }

\* response.data of reframe for request r: no `image`, or a single reference.
ImageData(r) == { << >>, [image |-> GenUrl(r)] }

\* `images[0]`: indexing an empty list yields undefined.
ImagesFirst(images) == IF Len(images) = 0 THEN Undef ELSE images[1]

\* Variant of NoImages: the length of the list is not looked at.
NoImagesLax(data) == "images" \notin DOMAIN data

\* `!data || !data.images || data.images.length === 0` (a response without a
\* body and a body without `images` are both the data << >>).
NoImages(data) == "images" \notin DOMAIN data \/ Len(data.images) = 0

\* `!data || !data.image`.
NoImage(data) == "image" \notin DOMAIN data \/ Falsy(data.image)

\* The image URL a response of the generation service carries, Undef if none:
\* what the service returned, recorded in log[r] apart from what the handler
\* makes of it.
Returned(data) ==
    IF "images" \in DOMAIN data
    THEN (IF data.images = << >> THEN Undef ELSE Head(data.images))
    ELSE IF "image" \in DOMAIN data THEN data.image ELSE Undef

\* Bytes axios.get may deliver.
Bytes == {"valid", "malformed"}

\* The result the media store passes to the upload_stream callback of an
\* upload of request r into `folder`: the store names the object itself, no
\* two uploads get the same name.
StoreResult(folder, r) ==
    [secure_url |-> "https://cdn/" \o folder \o "/" \o ToString(r) \o ".png",
     public_id  |-> folder \o "/" \o ToString(r)]

\* ------------------------------------------------------------------------
\* State.

VARIABLES
    pc,         \* pc[r]: where request r's handler is suspended
    req,        \* req[r]: the request as received (kind, req.file, req.body)
    local,      \* local[r]: the handler's local variables
    log,        \* log[r]: the external calls of request r and how they settled
    responses,  \* responses[r]: what was sent on res, in order
    store       \* the media store: a bag of stored objects

vars == <<pc, req, local, log, responses, store>>

NoReq == [kind |-> "none", file |-> Undef, prompt |-> Undef,
          image_url |-> Undef, aspect_ratio |-> Undef]

NoLocal == [imageUrl |-> Undef, resultUrl |-> Undef,
            imageData |-> Undef, pngBuffer |-> Undef]

Init ==
    /\ pc = [r \in Reqs |-> "idle"]
    /\ req = [r \in Reqs |-> NoReq]
    /\ local = [r \in Reqs |-> NoLocal]
    /\ log = [r \in Reqs |-> << >>]
    /\ responses = [r \in Reqs |-> << >>]
    /\ store = EmptyBag

\* ------------------------------------------------------------------------
\* Bookkeeping shared by the handlers.

\* One entry of log[r].
Ev(op, ev, a, b, c) == [op |-> op, ev |-> ev, a |-> a, b |-> b, c |-> c]

\* axios.post(<generation endpoint>, {image_url, prompt, aspect_ratio}).
CallGen(image_url, prompt, aspect_ratio) ==
    Ev("gen", "call", image_url, prompt, aspect_ratio)
\* axios.get(url, {responseType: 'arraybuffer'}).
CallFetch(url) == Ev("fetch", "call", url, Undef, Undef)
\* sharp(data).png().toBuffer().
CallSharp(data) == Ev("sharp", "call", data, Undef, Undef)
\* cloudinary.uploader.upload_stream({folder, format}, cb).end(buffer).
CallUpload(op, folder, format, buffer) == Ev(op, "call", folder, format, buffer)
\* The awaited promise resolved / rejected.
Ok(op, a, b) == Ev(op, "ok", a, b, Undef)
Fail(op, msg) == Ev(op, "fail", msg, Undef, Undef)

\* res.status(s).json({error: e}).
ErrorBody(s, e) ==
    [status |-> s, success |-> FALSE, error |-> e, original_url |-> Undef,
     cloudinary_url |-> Undef, public_id |-> Undef]

\* Variant of SuccessBody: original_url and cloudinary_url exchanged.
SuccessBodySwapped(original_url, uploadResult) ==
    [status |-> 200, success |-> TRUE, error |-> Undef,
     original_url |-> uploadResult.secure_url,
     cloudinary_url |-> original_url,
     public_id |-> uploadResult.public_id]

\* res.json({success: true, original_url, cloudinary_url, public_id}).
SuccessBody(original_url, uploadResult) ==
    [status |-> 200, success |-> TRUE, error |-> Undef,
     original_url |-> original_url,
     cloudinary_url |-> uploadResult.secure_url,
     public_id |-> uploadResult.public_id]

\* `aspect_ratio = "1:1"` in the destructuring: the default applies to undefined only.
AspectOrDefault(a) == IF a = Undef THEN "1:1" ELSE a

\* The object the media store keeps for an accepted upload.
Stored(r, folder, format, buffer, result) ==
    [owner |-> r, folder |-> folder, format |-> format, data |-> buffer,
     secure_url |-> result.secure_url, public_id |-> result.public_id]

\* One step of request r's handler.
Step(r, newpc, newlocal, events, sent, newstore) ==
    /\ pc' = [pc EXCEPT ![r] = newpc]
    /\ local' = [local EXCEPT ![r] = newlocal]
    /\ log' = [log EXCEPT ![r] = @ \o events]
    /\ responses' = [responses EXCEPT ![r] = @ \o sent]
    /\ store' = newstore

\* Requests are numbered in the order they arrive.
MayArrive(r) ==
    /\ pc[r] = "idle"
    /\ \A q \in Reqs : q < r => pc[q] # "idle"

Body(file, prompt, image_url, aspect_ratio, kind) ==
    [kind |-> kind, file |-> file, prompt |-> prompt,
     image_url |-> image_url, aspect_ratio |-> aspect_ratio]

\* ------------------------------------------------------------------------
\* POST /api/generate

GenerateFolder == "ideogram-images"

\* Variant of GenerateCatch: the error is logged and nothing is sent.
GenerateCatchSilent(r, op, msg) ==
    Step(r, "done", local[r], <<Fail(op, msg)>>, << >>, store)

\* Variant of GenerateCatch: the error's message is not passed on.
GenerateCatchOpaque(r, op, msg) ==
    Step(r, "done", local[r], <<Fail(op, msg)>>,
         <<ErrorBody(500, "Failed to process image")>>, store)

\* catch (error) of the generate handler; `op` is the call that rejected.
GenerateCatch(r, op, msg) ==
    Step(r, "done", local[r], <<Fail(op, msg)>>,
         <<ErrorBody(500, IF Falsy(msg) THEN "Failed to process image" ELSE msg)>>,
         store)

\* Variant of Generate: a request whose prompt another request has already
\* been answered for is answered with that request's result.
GenerateDedup(r) ==
    /\ MayArrive(r)
    /\ \E prompt \in Prompts, aspect_ratio \in AspectRatios :
        /\ req' = [req EXCEPT ![r] =
                     Body(Undef, prompt, Undef, aspect_ratio, "generate")]
        /\ IF Falsy(prompt)
           THEN Step(r, "done", local[r], << >>,
                     <<ErrorBody(400, "Prompt is required")>>, store)
           ELSE IF \E q \in Reqs : /\ req[q].kind = "generate"
                                   /\ req[q].prompt = prompt
                                   /\ Len(responses[q]) > 0
                                   /\ responses[q][1].status = 200
           THEN LET q == CHOOSE q \in Reqs : /\ req[q].kind = "generate"
                                             /\ req[q].prompt = prompt
                                             /\ Len(responses[q]) > 0
                                             /\ responses[q][1].status = 200
                IN  Step(r, "done", local[r], << >>, <<responses[q][1]>>, store)
           ELSE Step(r, "post", local[r],
                     <<CallGen(Undef, prompt, AspectOrDefault(aspect_ratio))>>,
                     << >>, store)

\* Entry of the handler up to the first await.
Generate(r) ==
    /\ MayArrive(r)
    /\ \E prompt \in Prompts, aspect_ratio \in AspectRatios :
        /\ req' = [req EXCEPT ![r] =
                     Body(Undef, prompt, Undef, aspect_ratio, "generate")]
        /\ IF Falsy(prompt)
           THEN Step(r, "done", local[r], << >>,
                     <<ErrorBody(400, "Prompt is required")>>, store)
           ELSE Step(r, "post", local[r],
                     <<CallGen(Undef, prompt, AspectOrDefault(aspect_ratio))>>,
                     << >>, store)

\* axios.post settled: check the result, start the download.
GeneratePosted(r) ==
    /\ req[r].kind = "generate" /\ pc[r] = "post"
    /\ UNCHANGED req
    /\ \/ \E msg \in ErrMsgs :
            GenerateCatch(r, "gen", msg)
       \/ \E data \in ImagesData(r) :
            IF NoImages(data)
            THEN Step(r, "done", local[r], <<Ok("gen", Returned(data), Undef)>>,
                      <<ErrorBody(500, "Failed to generate image")>>, store)
            ELSE LET imageUrl == ImagesFirst(data.images) IN
                 Step(r, "get", [local[r] EXCEPT !.resultUrl = imageUrl],
                      <<Ok("gen", Returned(data), Undef), CallFetch(imageUrl)>>,
                      << >>, store)

\* Variant of GenerateGot: the upload is started together with the
\* transcoding instead of after it.
GenerateGotFanOut(r) ==
    /\ req[r].kind = "generate" /\ pc[r] = "get"
    /\ UNCHANGED req
    /\ \/ \E msg \in ErrMsgs :
            Step(r, "done", local[r], <<Fail("fetch", msg)>>,
                 <<ErrorBody(500, IF Falsy(msg) THEN "Failed to process image"
                                               ELSE msg)>>, store)
       \/ \E bytes \in Bytes :
            Step(r, "sharp", [local[r] EXCEPT !.imageData = bytes],
                 <<Ok("fetch", bytes, Undef), CallSharp(bytes),
                   CallUpload("upload", "ideogram-images", "png", bytes)>>,
                 << >>, store)

\* Variant of GenerateGot: a failed download is tried a second time.
GenerateGotRetry(r) ==
    /\ req[r].kind = "generate" /\ pc[r] = "get"
    /\ UNCHANGED req
    /\ \/ \E msg \in ErrMsgs :
            IF Cardinality({i \in DOMAIN log[r] : log[r][i].op = "fetch"
                                                 /\ log[r][i].ev = "call"}) < 2
            THEN Step(r, "get", local[r],
                      <<Fail("fetch", msg), CallFetch(local[r].resultUrl)>>,
                      << >>, store)
            ELSE GenerateCatch(r, "fetch", msg)
       \/ \E bytes \in Bytes :
            Step(r, "sharp", [local[r] EXCEPT !.imageData = bytes],
                 <<Ok("fetch", bytes, Undef), CallSharp(bytes)>>, << >>, store)

\* axios.get settled: start the transcoding.
GenerateGot(r) ==
    /\ req[r].kind = "generate" /\ pc[r] = "get"
    /\ UNCHANGED req
    /\ \/ \E msg \in ErrMsgs :
            GenerateCatch(r, "fetch", msg)
       \/ \E bytes \in Bytes :
            Step(r, "sharp", [local[r] EXCEPT !.imageData = bytes],
                 <<Ok("fetch", bytes, Undef), CallSharp(bytes)>>, << >>, store)

\* Variant of GenerateTranscoded: the response is sent when the upload is
\* started, not when it has settled.
GenerateTranscodedRespondEarly(r) ==
    /\ req[r].kind = "generate" /\ pc[r] = "sharp"
    /\ UNCHANGED req
    /\ IF local[r].imageData = "malformed"
       THEN \E msg \in ErrMsgs :
            Step(r, "done", local[r], <<Fail("sharp", msg)>>,
                 <<ErrorBody(500, IF Falsy(msg) THEN "Failed to process image"
                                               ELSE msg)>>, store)
       ELSE LET pngBuffer == "png" IN
            Step(r, "upload", [local[r] EXCEPT !.pngBuffer = pngBuffer],
                 <<Ok("sharp", pngBuffer, Undef),
                   CallUpload("upload", "ideogram-images", "png", pngBuffer)>>,
                 <<[status |-> 200, success |-> TRUE, error |-> Undef,
                    original_url |-> local[r].resultUrl,
                    cloudinary_url |-> Undef, public_id |-> Undef]>>, store)

\* Variant of GenerateTranscoded: bytes that cannot be transcoded are
\* uploaded as they are.
GenerateTranscodedFallback(r) ==
    /\ req[r].kind = "generate" /\ pc[r] = "sharp"
    /\ UNCHANGED req
    /\ IF local[r].imageData = "malformed"
       THEN \E msg \in ErrMsgs :
            Step(r, "upload", [local[r] EXCEPT !.pngBuffer = local[r].imageData],
                 <<Fail("sharp", msg),
                   CallUpload("upload", GenerateFolder, "png", local[r].imageData)>>,
                 << >>, store)
       ELSE LET pngBuffer == "png" IN
            Step(r, "upload", [local[r] EXCEPT !.pngBuffer = pngBuffer],
                 <<Ok("sharp", pngBuffer, Undef),
                   CallUpload("upload", GenerateFolder, "png", pngBuffer)>>,
                 << >>, store)

\* sharp settled: start the upload.
GenerateTranscoded(r) ==
    /\ req[r].kind = "generate" /\ pc[r] = "sharp"
    /\ UNCHANGED req
    /\ IF local[r].imageData = "malformed"
       THEN \E msg \in ErrMsgs :
            GenerateCatch(r, "sharp", msg)
       ELSE LET pngBuffer == "png" IN
            Step(r, "upload", [local[r] EXCEPT !.pngBuffer = pngBuffer],
                 <<Ok("sharp", pngBuffer, Undef),
                   CallUpload("upload", GenerateFolder, "png", pngBuffer)>>,
                 << >>, store)

\* upload_stream's callback ran: respond.
GenerateUploaded(r) ==
    /\ req[r].kind = "generate" /\ pc[r] = "upload"
    /\ UNCHANGED req
    /\ \/ \E msg \in ErrMsgs :
            GenerateCatch(r, "upload", msg)
       \/ LET uploadResult == StoreResult(GenerateFolder, r) IN
            Step(r, "done", local[r],
                 <<Ok("upload", uploadResult.secure_url, uploadResult.public_id)>>,
                 <<SuccessBody(local[r].resultUrl, uploadResult)>>,
                 store (+) SetToBag({Stored(r, GenerateFolder, "png",
                                            local[r].pngBuffer, uploadResult)}))

\* ------------------------------------------------------------------------
\* POST /api/reframe

ReframeFolder == "ideogram-reframed"

\* catch (error) of the reframe handler; `op` is the call that rejected.
ReframeCatch(r, op, msg) ==
    Step(r, "done", local[r], <<Fail(op, msg)>>,
         <<ErrorBody(500, IF Falsy(msg) THEN "Failed to reframe image" ELSE msg)>>,
         store)

\* Entry of the handler up to the first await.
Reframe(r) ==
    /\ MayArrive(r)
    /\ \E image_url \in ImageUrls, aspect_ratio \in AspectRatios :
        /\ req' = [req EXCEPT ![r] =
                     Body(Undef, Undef, image_url, aspect_ratio, "reframe")]
        /\ IF Falsy(image_url)
           THEN Step(r, "done", local[r], << >>,
                     <<ErrorBody(400, "Image URL is required")>>, store)
           ELSE Step(r, "post", local[r],
                     <<CallGen(image_url, Undef, AspectOrDefault(aspect_ratio))>>,
                     << >>, store)

\* axios.post settled: check the result, start the download.
ReframePosted(r) ==
    /\ req[r].kind = "reframe" /\ pc[r] = "post"
    /\ UNCHANGED req
    /\ \/ \E msg \in ErrMsgs :
            ReframeCatch(r, "gen", msg)
       \/ \E data \in ImageData(r) :
            IF NoImage(data)
            THEN Step(r, "done", local[r], <<Ok("gen", Returned(data), Undef)>>,
                      <<ErrorBody(500, "Failed to reframe image")>>, store)
            ELSE LET reframedImageUrl == data.image IN
                 Step(r, "get", [local[r] EXCEPT !.resultUrl = reframedImageUrl],
                      <<Ok("gen", Returned(data), Undef), CallFetch(reframedImageUrl)>>,
                      << >>, store)

\* axios.get settled: start the transcoding.
ReframeGot(r) ==
    /\ req[r].kind = "reframe" /\ pc[r] = "get"
    /\ UNCHANGED req
    /\ \/ \E msg \in ErrMsgs :
            ReframeCatch(r, "fetch", msg)
       \/ \E bytes \in Bytes :
            Step(r, "sharp", [local[r] EXCEPT !.imageData = bytes],
                 <<Ok("fetch", bytes, Undef), CallSharp(bytes)>>, << >>, store)

\* sharp settled: start the upload.
ReframeTranscoded(r) ==
    /\ req[r].kind = "reframe" /\ pc[r] = "sharp"
    /\ UNCHANGED req
    /\ IF local[r].imageData = "malformed"
       THEN \E msg \in ErrMsgs :
            ReframeCatch(r, "sharp", msg)
       ELSE LET pngBuffer == "png" IN
            Step(r, "upload", [local[r] EXCEPT !.pngBuffer = pngBuffer],
                 <<Ok("sharp", pngBuffer, Undef),
                   CallUpload("upload", ReframeFolder, "png", pngBuffer)>>,
                 << >>, store)

\* upload_stream's callback ran: respond.
ReframeUploaded(r) ==
    /\ req[r].kind = "reframe" /\ pc[r] = "upload"
    /\ UNCHANGED req
    /\ \/ \E msg \in ErrMsgs :
            ReframeCatch(r, "upload", msg)
       \/ LET uploadResult == StoreResult(ReframeFolder, r) IN
            Step(r, "done", local[r],
                 <<Ok("upload", uploadResult.secure_url, uploadResult.public_id)>>,
                 <<SuccessBody(local[r].resultUrl, uploadResult)>>,
                 store (+) SetToBag({Stored(r, ReframeFolder, "png",
                                            local[r].pngBuffer, uploadResult)}))

\* ------------------------------------------------------------------------
\* POST /api/remix

\* Variant of RemixFolder: the folder of the generate handler, copied.
RemixFolderCopied == "ideogram-images"

RemixFolder == "ideogram-remixed"
TempFolder == "temp-uploads"

\* Variant of RemixCatch: the request's temporary upload is destroyed.
RemixCatchCleanup(r, op, msg) ==
    Step(r, "done", local[r], <<Fail(op, msg)>>,
         <<ErrorBody(500, IF Falsy(msg) THEN "Failed to remix image" ELSE msg)>>,
         [o \in {x \in BagToSet(store) : ~(x.owner = r /\ x.folder = TempFolder)}
            |-> store[o]])

\* catch (error) of the remix handler; `op` is the call that rejected.
RemixCatch(r, op, msg) ==
    Step(r, "done", local[r], <<Fail(op, msg)>>,
         <<ErrorBody(500, IF Falsy(msg) THEN "Failed to remix image" ELSE msg)>>,
         store)

\* From `const { prompt, aspect_ratio = "1:1" } = req.body` to the await of
\* axios.post, once imageUrl is known; `events` and `newstore` are what the
\* step did before it got here.
RemixValidate(r, body, imageUrl, events, newstore) ==
    IF Falsy(body.prompt)
    THEN Step(r, "done", [local[r] EXCEPT !.imageUrl = imageUrl], events,
              <<ErrorBody(400, "Prompt is required")>>, newstore)
    ELSE Step(r, "post", [local[r] EXCEPT !.imageUrl = imageUrl],
              events \o <<CallGen(imageUrl, body.prompt,
                                  AspectOrDefault(body.aspect_ratio))>>,
              << >>, newstore)

\* Variant of SourceIsFile: a URL in the body wins over the file.
SourceIsFileUnlessUrl(body) == body.file # Undef /\ Falsy(body.image_url)

\* `if (req.file)`: the uploaded file is the image source.
SourceIsFile(body) == body.file # Undef

\* `else if (req.body.image_url)`: the URL in the body is the image source.
SourceIsUrl(body) == ~Falsy(body.image_url)

\* Variant of Remix: the prompt is checked before the image source.
RemixPromptFirst(r) ==
    /\ MayArrive(r)
    /\ \E file \in Files, image_url \in ImageUrls,
          prompt \in Prompts, aspect_ratio \in AspectRatios :
        LET body == Body(file, prompt, image_url, aspect_ratio, "remix") IN
        /\ req' = [req EXCEPT ![r] = body]
        /\ IF Falsy(prompt)
           THEN Step(r, "done", local[r], << >>,
                     <<ErrorBody(400, "Prompt is required")>>, store)
           ELSE IF SourceIsFile(body)
           THEN Step(r, "temp", local[r],
                     <<CallUpload("temp", TempFolder, Undef, file)>>,
                     << >>, store)
           ELSE IF SourceIsUrl(body)
           THEN RemixValidate(r, body, image_url, << >>, store)
           ELSE Step(r, "done", local[r], << >>,
                     <<ErrorBody(400, "Image (file or URL) is required")>>, store)

\* Entry of the handler up to the first await.
Remix(r) ==
    /\ MayArrive(r)
    /\ \E file \in Files, image_url \in ImageUrls,
          prompt \in Prompts, aspect_ratio \in AspectRatios :
        LET body == Body(file, prompt, image_url, aspect_ratio, "remix") IN
        /\ req' = [req EXCEPT ![r] = body]
        /\ IF SourceIsFile(body)
           THEN Step(r, "temp", local[r],
                     <<CallUpload("temp", TempFolder, Undef, file)>>,
                     << >>, store)
           ELSE IF SourceIsUrl(body)
           THEN RemixValidate(r, body, image_url, << >>, store)
           ELSE Step(r, "done", local[r], << >>,
                     <<ErrorBody(400, "Image (file or URL) is required")>>, store)

\* The temporary upload's callback ran: validate the prompt, call the service.
RemixTempUploaded(r) ==
    /\ req[r].kind = "remix" /\ pc[r] = "temp"
    /\ UNCHANGED req
    /\ \/ \E msg \in ErrMsgs :
            RemixCatch(r, "temp", msg)
       \/ LET tempUpload == StoreResult(TempFolder, r) IN
            RemixValidate(r, req[r], tempUpload.secure_url,
                <<Ok("temp", tempUpload.secure_url, tempUpload.public_id)>>,
                store (+) SetToBag({Stored(r, TempFolder, Undef,
                                           req[r].file, tempUpload)}))

\* axios.post settled: check the result, start the download.
RemixPosted(r) ==
    /\ req[r].kind = "remix" /\ pc[r] = "post"
    /\ UNCHANGED req
    /\ \/ \E msg \in ErrMsgs :
            RemixCatch(r, "gen", msg)
       \/ \E data \in ImagesData(r) :
            IF NoImages(data)
            THEN Step(r, "done", local[r], <<Ok("gen", Returned(data), Undef)>>,
                      <<ErrorBody(500, "Failed to remix image")>>, store)
            ELSE LET remixedImageUrl == ImagesFirst(data.images) IN
                 Step(r, "get", [local[r] EXCEPT !.resultUrl = remixedImageUrl],
                      <<Ok("gen", Returned(data), Undef), CallFetch(remixedImageUrl)>>,
                      << >>, store)

\* axios.get settled: start the transcoding.
RemixGot(r) ==
    /\ req[r].kind = "remix" /\ pc[r] = "get"
    /\ UNCHANGED req
    /\ \/ \E msg \in ErrMsgs :
            RemixCatch(r, "fetch", msg)
       \/ \E bytes \in Bytes :
            Step(r, "sharp", [local[r] EXCEPT !.imageData = bytes],
                 <<Ok("fetch", bytes, Undef), CallSharp(bytes)>>, << >>, store)

\* sharp settled: start the upload.
RemixTranscoded(r) ==
    /\ req[r].kind = "remix" /\ pc[r] = "sharp"
    /\ UNCHANGED req
    /\ IF local[r].imageData = "malformed"
       THEN \E msg \in ErrMsgs :
            RemixCatch(r, "sharp", msg)
       ELSE LET pngBuffer == "png" IN
            Step(r, "upload", [local[r] EXCEPT !.pngBuffer = pngBuffer],
                 <<Ok("sharp", pngBuffer, Undef),
                   CallUpload("upload", RemixFolder, "png", pngBuffer)>>,
                 << >>, store)

\* upload_stream's callback ran: respond.
RemixUploaded(r) ==
    /\ req[r].kind = "remix" /\ pc[r] = "upload"
    /\ UNCHANGED req
    /\ \/ \E msg \in ErrMsgs :
            RemixCatch(r, "upload", msg)
       \/ LET uploadResult == StoreResult(RemixFolder, r) IN
            Step(r, "done", local[r],
                 <<Ok("upload", uploadResult.secure_url, uploadResult.public_id)>>,
                 <<SuccessBody(local[r].resultUrl, uploadResult)>>,
                 store (+) SetToBag({Stored(r, RemixFolder, "png",
                                            local[r].pngBuffer, uploadResult)}))

\* ------------------------------------------------------------------------

Next ==
    \E r \in Reqs :
        \/ Generate(r)
        \/ GeneratePosted(r)
        \/ GenerateGot(r)
        \/ GenerateTranscoded(r)
        \/ GenerateUploaded(r)
        \/ Reframe(r)
        \/ ReframePosted(r)
        \/ ReframeGot(r)
        \/ ReframeTranscoded(r)
        \/ ReframeUploaded(r)
        \/ Remix(r)
        \/ RemixTempUploaded(r)
        \/ RemixPosted(r)
        \/ RemixGot(r)
        \/ RemixTranscoded(r)
        \/ RemixUploaded(r)

Spec == Init /\ [][Next]_vars

\* The handler of request r is resumed: the promise it awaits has settled.
Settle(r) ==
    \/ GeneratePosted(r) \/ GenerateGot(r)
    \/ GenerateTranscoded(r) \/ GenerateUploaded(r)
    \/ ReframePosted(r) \/ ReframeGot(r)
    \/ ReframeTranscoded(r) \/ ReframeUploaded(r)
    \/ RemixTempUploaded(r) \/ RemixPosted(r) \/ RemixGot(r)
    \/ RemixTranscoded(r) \/ RemixUploaded(r)

\* Every external call eventually returns or fails, and the event loop then
\* resumes the handler that awaits it.
FairSpec == Spec /\ \A r \in Reqs : WF_vars(Settle(r))

\* ------------------------------------------------------------------------
\* Vocabulary of the properties.

Arrived(r) == req[r].kind # "none"
Done(r) == pc[r] = "done"

\* The positions of log[r] holding an event `ev` of the call `op`.
Events(r, op, ev) ==
    {i \in DOMAIN log[r] : log[r][i].op = op /\ log[r][i].ev = ev}

\* How often request r invoked `op`.
Calls(r, op) == Cardinality(Events(r, op, "call"))

\* Request r was answered with status s.
Answered(r, s) == Len(responses[r]) > 0 /\ responses[r][1].status = s

\* Request r lacks a field its endpoint requires.
MissingField(r) ==
    CASE req[r].kind = "generate" -> Falsy(req[r].prompt)
      [] req[r].kind = "reframe"  -> Falsy(req[r].image_url)
      [] req[r].kind = "remix"    ->
            \/ (req[r].file = Undef /\ Falsy(req[r].image_url))
            \/ Falsy(req[r].prompt)
      [] OTHER -> FALSE

\* The generation service answered request r without an image.
GenEmpty(r) == \E i \in Events(r, "gen", "ok") : log[r][i].a = Undef

\* An event that ends a stage in failure.
IsFailure(e) == e.ev = "fail" \/ (e.op = "gen" /\ e.ev = "ok" /\ e.a = Undef)

\* The objects of the media store that request r's uploads created.
ObjectsOf(r) == {o \in BagToSet(store) : o.owner = r}
NumObjectsOf(r) ==
    BagCardinality([o \in ObjectsOf(r) |-> store[o]])

\* Every media-store call of request r is a temporary upload of remix's
\* supplied file, issued before position `before` of log[r].
OnlyTempUploadBefore(r, before) ==
    /\ Calls(r, "upload") = 0
    /\ Calls(r, "temp") > 0 =>
         /\ req[r].kind = "remix" /\ req[r].file # Undef
         /\ \A i \in DOMAIN log[r] : log[r][i].op = "temp" => i < before

\* ------------------------------------------------------------------------
\* C1: a request missing a required field is answered 400 and has invoked
\* no external client at any point (stated as the claim has it; remix with a
\* file and no prompt uploads the file before it looks at the prompt).
C1_MissingFieldNoCall ==
    \A r \in Reqs :
        Arrived(r) /\ MissingField(r) =>
            /\ log[r] = << >>
            /\ Done(r) => Answered(r, 400)

\* C2: a success response carries as original_url the URL the generation
\* service returned to this request, and as cloudinary_url / public_id the
\* secure_url / public_id the request's last media-store upload returned.
C2_SuccessFieldsFromClients ==
    \A r \in Reqs :
        Answered(r, 200) =>
            LET uploads == Events(r, "temp", "ok") \cup Events(r, "upload", "ok")
                final == CHOOSE i \in uploads : \A j \in uploads : j <= i
                b == responses[r][1]
            IN  /\ uploads # {}
                /\ log[r][final].op = "upload"
                /\ \E g \in Events(r, "gen", "ok") :
                     /\ log[r][g].a # Undef
                     /\ b.original_url = log[r][g].a
                /\ Cardinality(Events(r, "gen", "ok")) = 1
                /\ b.cloudinary_url = log[r][final].a
                /\ b.public_id = log[r][final].b
                /\ b.success

\* C2 witness: a remix of an uploaded file (two uploads) answered 200.
C2_Witness ==
    \E r \in Reqs :
        /\ req[r].kind = "remix" /\ req[r].file # Undef
        /\ Answered(r, 200)

\* C3: a successful request has produced exactly one stored object and one
\* response (stated as the claim has it; a successful remix of an uploaded
\* file leaves the temporary object and the final one).
C3_OneObjectOneResponse ==
    \A r \in Reqs :
        Answered(r, 200) =>
            /\ NumObjectsOf(r) = 1
            /\ Len(responses[r]) = 1

\* C4 as claimed: after an empty generation result the request is answered
\* 500 and has called neither fetch nor the media store at any point.
C4_EmptyResultNoFetchNoStore ==
    \A r \in Reqs :
        GenEmpty(r) =>
            /\ Answered(r, 500)
            /\ Calls(r, "fetch") = 0
            /\ Calls(r, "temp") = 0 /\ Calls(r, "upload") = 0

\* C4: after an empty generation result the request is answered 500 (once),
\* has called neither fetch nor the transcoder nor the final upload; its only
\* media-store call, if any, is remix's temporary upload of a supplied file,
\* made before the generation call.
C4_EmptyResultStops ==
    \A r \in Reqs :
        GenEmpty(r) =>
            /\ Done(r) /\ Len(responses[r]) = 1 /\ Answered(r, 500)
            /\ Calls(r, "fetch") = 0 /\ Calls(r, "sharp") = 0
            /\ \A c \in Events(r, "gen", "call") : OnlyTempUploadBefore(r, c)
            /\ \A o \in ObjectsOf(r) : o.folder = TempFolder

\* C4 witness: a remix of an uploaded file whose generation result is empty.
C4_Witness ==
    \E r \in Reqs :
        /\ req[r].kind = "remix" /\ req[r].file # Undef
        /\ GenEmpty(r) /\ Answered(r, 500)

\* C5 as claimed: after a failed transcoding the request is answered 500 and
\* has not called the media store at any point.
C5_TranscodeFailNoStore ==
    \A r \in Reqs :
        Events(r, "sharp", "fail") # {} =>
            /\ Answered(r, 500)
            /\ Calls(r, "temp") = 0 /\ Calls(r, "upload") = 0

\* C5: after a failed transcoding the request is answered 500 (once) and
\* makes no final upload; its only media-store call, if any, is remix's
\* temporary upload of a supplied file, made before the generation call.
C5_TranscodeFailStops ==
    \A r \in Reqs :
        Events(r, "sharp", "fail") # {} =>
            /\ Done(r) /\ Len(responses[r]) = 1 /\ Answered(r, 500)
            /\ \A c \in Events(r, "gen", "call") : OnlyTempUploadBefore(r, c)
            /\ \A o \in ObjectsOf(r) : o.folder = TempFolder

\* C5 witness: a remix of an uploaded file whose transcoding failed.
C5_Witness ==
    \E r \in Reqs :
        /\ req[r].kind = "remix" /\ req[r].file # Undef
        /\ Events(r, "sharp", "fail") # {} /\ Answered(r, 500)

\* C6: a request answered with a failure (400 or 500) has no successful final
\* upload and owns no stored object other than, for a remix of a supplied
\* file, its one temporary upload; and no step of any handler removes an
\* object from the media store.
C6_FailureLeavesNoFinalObject ==
    /\ [](\A r \in Reqs :
            Answered(r, 400) \/ Answered(r, 500) =>
                /\ Events(r, "upload", "ok") = {}
                /\ \A o \in ObjectsOf(r) :
                     /\ o.folder = TempFolder
                     /\ req[r].kind = "remix" /\ req[r].file # Undef
                /\ NumObjectsOf(r) = Cardinality(Events(r, "temp", "ok"))
                /\ NumObjectsOf(r) <= 1)
    /\ [][\A o \in BagToSet(store) :
            /\ o \in BagToSet(store')
            /\ CopiesIn(o, store') >= CopiesIn(o, store)]_vars

\* C6 witness: a remix whose temporary upload succeeded and whose final
\* upload failed; the temporary object is still in the store.
C6_Witness ==
    \E r \in Reqs :
        /\ Events(r, "temp", "ok") # {}
        /\ Events(r, "upload", "fail") # {}
        /\ Answered(r, 500)
        /\ \E o \in ObjectsOf(r) : o.folder = TempFolder

\* C7: remix's image source.  With a file: the file is uploaded once to the
\* temporary folder and the generation call, if made, carries that upload's
\* secure_url, whatever image_url the body has.  Without a file and with a
\* non-empty image_url: no temporary upload, and the generation call carries
\* the body's image_url.  With neither: 400 and no external call.
C7_RemixImageSource ==
    \A r \in Reqs :
        req[r].kind = "remix" =>
            IF req[r].file # Undef
            THEN /\ Calls(r, "temp") = 1
                 /\ log[r][1] = CallUpload("temp", TempFolder, Undef, req[r].file)
                 /\ \A g \in Events(r, "gen", "call") :
                      \E t \in Events(r, "temp", "ok") :
                         /\ t < g
                         /\ log[r][g].a = log[r][t].a
            ELSE IF ~Falsy(req[r].image_url)
            THEN /\ Calls(r, "temp") = 0
                 /\ \A g \in Events(r, "gen", "call") :
                      log[r][g].a = req[r].image_url
            ELSE /\ log[r] = << >>
                 /\ Done(r) /\ Len(responses[r]) = 1 /\ Answered(r, 400)

\* C7 witness: a remix with both a file and an image_url that reached the
\* generation call.
C7_Witness ==
    \E r \in Reqs :
        /\ req[r].kind = "remix"
        /\ req[r].file # Undef /\ ~Falsy(req[r].image_url)
        /\ Events(r, "gen", "call") # {}

\* C8: of an answered request, the status is 400 exactly when a required
\* field is missing, 500 exactly when a stage failed, 200 exactly when every
\* stage succeeded (stated as the claim has it; a remix of a file without a
\* prompt whose temporary upload fails is answered 500).
C8_StatusByCause ==
    \A r \in Reqs :
        Done(r) =>
            LET failed == \E i \in DOMAIN log[r] : IsFailure(log[r][i])
                succeeded == /\ ~failed
                             /\ Events(r, "upload", "ok") # {}
            IN  /\ Answered(r, 400) <=> MissingField(r)
                /\ Answered(r, 500) <=> failed
                /\ Answered(r, 200) <=> succeeded
                /\ MissingField(r) => ~Answered(r, 500)

\* C9 as claimed: when a call fails with a message, the response is 500 and
\* its error field is that message, whatever the message.
C9_MessageVerbatim ==
    \A r \in Reqs :
        \A i \in DOMAIN log[r] :
            log[r][i].ev = "fail" =>
                /\ Answered(r, 500)
                /\ responses[r][1].error = log[r][i].a

\* C9: when a call fails with a message, the response is 500; its error
\* field is that message when the message is not empty, and the handler's
\* fixed text when it is empty.
C9_MessageOrFallback ==
    \A r \in Reqs :
        \A i \in DOMAIN log[r] :
            log[r][i].ev = "fail" =>
                LET fallback ==
                        CASE req[r].kind = "generate" -> "Failed to process image"
                          [] req[r].kind = "reframe"  -> "Failed to reframe image"
                          [] req[r].kind = "remix"    -> "Failed to remix image"
                IN  /\ Len(responses[r]) = 1 /\ Answered(r, 500)
                    /\ responses[r][1].error =
                         IF log[r][i].a = "" THEN fallback ELSE log[r][i].a

\* C9 witness: one request failed with a message, another with the empty one.
C9_Witness ==
    \E r, q \in Reqs :
        /\ \E i \in DOMAIN log[r] : log[r][i].ev = "fail" /\ log[r][i].a = "boom"
        /\ \E i \in DOMAIN log[q] : log[q][i].ev = "fail" /\ log[q][i].a = ""
        /\ Done(r) /\ Done(q)

\* C10: within a request every call (temporary upload, generation, fetch,
\* transcoding, final upload) is invoked at most once; a failure is the last
\* event of the request, which is then done and answered 500 exactly once;
\* a request is never answered twice.
C10_NoRetry ==
    \A r \in Reqs :
        /\ \A op \in {"temp", "gen", "fetch", "sharp", "upload"} :
             Calls(r, op) <= 1
        /\ \A i \in DOMAIN log[r] :
             IsFailure(log[r][i]) =>
                /\ i = Len(log[r])
                /\ Done(r)
                /\ Len(responses[r]) = 1 /\ Answered(r, 500)
        /\ Len(responses[r]) <= 1
        /\ Done(r) => Len(responses[r]) = 1

\* C10 witness: a remix of a file that went through every stage and failed
\* at the final upload.
C10_Witness ==
    \E r \in Reqs :
        /\ \A op \in {"temp", "gen", "fetch", "sharp", "upload"} : Calls(r, op) = 1
        /\ Events(r, "upload", "fail") # {}
        /\ Done(r)

\* The values the external services returned to request q.
ReturnedTo(q) ==
    UNION {{log[q][i].a, log[q][i].b} : i \in {j \in DOMAIN log[q] : log[q][j].ev = "ok"}}
        \ {Undef}

\* C11: requests in flight are isolated.  A step changes the handler state,
\* the calls and the responses of one request only and adds to the store only
\* objects of that request; a request answered 200 has run every stage of
\* its own pipeline once and owns the stored object its response names,
\* however many identical requests there are; and the URLs and the identifier
\* in its response were returned to its own calls and to no other request's.
C11_RequestsIsolated ==
    /\ [](\A r \in Reqs :
            Answered(r, 200) =>
                LET b == responses[r][1] IN
                /\ \A op \in {"gen", "fetch", "sharp", "upload"} : Calls(r, op) = 1
                /\ \E o \in ObjectsOf(r) :
                     o.public_id = b.public_id /\ o.secure_url = b.cloudinary_url
                /\ {b.original_url, b.cloudinary_url, b.public_id} \subseteq ReturnedTo(r)
                /\ \A q \in Reqs \ {r} :
                     {b.original_url, b.cloudinary_url, b.public_id}
                        \cap ReturnedTo(q) = {})
    /\ [][\E r \in Reqs :
            /\ \A q \in Reqs \ {r} :
                 /\ pc'[q] = pc[q] /\ req'[q] = req[q] /\ local'[q] = local[q]
                 /\ log'[q] = log[q] /\ responses'[q] = responses[q]
            /\ \A o \in BagToSet(store') :
                 CopiesIn(o, store') # CopiesIn(o, store) => o.owner = r]_vars

\* C11 witness: two identical generate requests, both answered 200.
C11_Witness ==
    \E r, q \in Reqs :
        /\ r # q /\ req[r] = req[q] /\ req[r].kind = "generate"
        /\ Answered(r, 200) /\ Answered(q, 200)
        /\ responses[r][1].original_url # responses[q][1].original_url

\* C12: provided every external call eventually returns or fails, every
\* request that reached a handler is eventually done and answered exactly
\* once; no request is ever answered twice, and no handler ends without
\* having answered.
C12_EventuallyOneResponse ==
    /\ \A r \in Reqs :
         Arrived(r) ~> (Done(r) /\ Len(responses[r]) = 1)
    /\ [](\A r \in Reqs :
            /\ Len(responses[r]) <= 1
            /\ Done(r) => Len(responses[r]) = 1
            /\ Len(responses[r]) = 1 =>
                 responses[r][1].status \in {200, 400, 500})

\* C12 witness: a reframe request that went through every await and was
\* answered once.
C12_Witness ==
    \E r \in Reqs :
        /\ req[r].kind = "reframe"
        /\ Len(log[r]) = 8
        /\ Done(r) /\ Len(responses[r]) = 1

\* The stage whose success a call of `op` by request r waits for ("" if none).
StageBefore(r, op) ==
    CASE op = "temp"   -> ""
      [] op = "gen"    -> IF req[r].kind = "remix" /\ req[r].file # Undef
                          THEN "temp" ELSE ""
      [] op = "fetch"  -> "gen"
      [] op = "sharp"  -> "fetch"
      [] op = "upload" -> "sharp"

\* C13: the stages of a request run one after the other.  Every call is
\* settled before the request does anything else; a call is made only right
\* after the success of the stage before it (the generation call after the
\* temporary upload when remix has a file, fetch after a generation result
\* with an image, transcoding after fetch, the final upload after
\* transcoding), the first stage being the first event; and a request is
\* answered 200 only when its last event is the success of the final upload.
C13_StagesInSequence ==
    \A r \in Reqs :
        /\ \A i \in DOMAIN log[r] :
             LET e == log[r][i] IN
             IF e.ev = "call"
             THEN /\ IF i = Len(log[r])
                     THEN ~Done(r) /\ responses[r] = << >>
                     ELSE log[r][i + 1].op = e.op
                          /\ log[r][i + 1].ev \in {"ok", "fail"}
                  /\ IF StageBefore(r, e.op) = ""
                     THEN i = 1
                     ELSE /\ i > 1
                          /\ log[r][i - 1].op = StageBefore(r, e.op)
                          /\ log[r][i - 1].ev = "ok"
                          /\ ~IsFailure(log[r][i - 1])
             ELSE /\ i > 1
                  /\ log[r][i - 1].op = e.op
                  /\ log[r][i - 1].ev = "call"
        /\ Answered(r, 200) =>
             /\ log[r] # << >>
             /\ log[r][Len(log[r])].op = "upload"
             /\ log[r][Len(log[r])].ev = "ok"

\* C13 witness: a remix of a file that ran its five stages and was answered 200.
C13_Witness ==
    \E r \in Reqs :
        /\ req[r].kind = "remix" /\ Len(log[r]) = 10
        /\ Answered(r, 200)

\* The namespace tag the final upload of an operation kind is to carry.
TagOf(kind) ==
    CASE kind = "generate" -> "ideogram-images"
      [] kind = "reframe"  -> "ideogram-reframed"
      [] kind = "remix"    -> "ideogram-remixed"

\* The operation that produced a stored object: the temporary upload of
\* remix stores the file as it came, a final upload stores a png.
Producer(o) == IF o.format = "png" THEN req[o.owner].kind ELSE "temp"

\* Final uploads and stored objects carry the tag of their operation kind,
\* temporary uploads carry `temp`, and objects of different operations never
\* share a tag.
TagsAre(temp) ==
    /\ \A r \in Reqs :
         \A i \in DOMAIN log[r] :
            log[r][i].ev = "call" =>
               /\ log[r][i].op = "upload" => log[r][i].a = TagOf(req[r].kind)
               /\ log[r][i].op = "temp" =>
                    log[r][i].a = temp /\ req[r].kind = "remix"
    /\ \A o \in BagToSet(store) :
         IF Producer(o) = "temp"
         THEN o.folder = temp /\ req[o.owner].kind = "remix"
                              /\ o.data = req[o.owner].file
         ELSE o.folder = TagOf(Producer(o))
    /\ \A o1, o2 \in BagToSet(store) :
         o1.folder = o2.folder => Producer(o1) = Producer(o2)

\* C14 as claimed: the temporary upload uses the namespace "temp".
C14_TagsWithTemp == TagsAre("temp")

\* C14: every final upload carries the fixed tag of its operation kind
\* (ideogram-images, ideogram-reframed, ideogram-remixed), the remix
\* temporary upload uses the namespace "temp-uploads", and the four tags are
\* pairwise distinct, so the tag of a stored object tells what produced it.
C14_TagsWithTempUploads == TagsAre("temp-uploads")

\* C14 witness: the store holds a temporary object, a remix result and the
\* result of another kind of request.
C14_Witness ==
    /\ \E o \in BagToSet(store) : o.folder = TempFolder
    /\ \E o \in BagToSet(store) : o.folder = RemixFolder
    /\ \E o \in BagToSet(store) : o.folder \in {GenerateFolder, ReframeFolder}

\* The error text for the first missing field of request r, in the order
\* the claim gives: for remix the image source, then the prompt.
FirstMissing(r) ==
    CASE req[r].kind = "generate" -> "Prompt is required"
      [] req[r].kind = "reframe"  -> "Image URL is required"
      [] req[r].kind = "remix"    ->
            IF req[r].file = Undef /\ Falsy(req[r].image_url)
            THEN "Image (file or URL) is required"
            ELSE "Prompt is required"

\* C15: the body of every 400 response is {error: <text>} with the text of
\* the first missing field of the request, remix looking at the image source
\* before the prompt; and a request whose first missing field is found
\* before any external call (generate without prompt, reframe without
\* image_url, remix without file and image_url, remix with only an
\* image_url) is answered with that 400.
C15_FirstMissingField ==
    \A r \in Reqs :
        /\ Answered(r, 400) =>
             /\ MissingField(r)
             /\ responses[r] = <<ErrorBody(400, FirstMissing(r))>>
        /\ Arrived(r) /\ MissingField(r) /\ req[r].file = Undef =>
             Done(r) /\ Answered(r, 400)

\* C15 witness: a remix with neither image source nor prompt, and a remix
\* with a file and no prompt, both answered 400.
C15_Witness ==
    \E r, q \in Reqs :
        /\ req[r].kind = "remix" /\ req[r].file = Undef
        /\ Falsy(req[r].image_url) /\ Falsy(req[r].prompt)
        /\ Answered(r, 400)
        /\ req[q].kind = "remix" /\ req[q].file # Undef /\ Falsy(req[q].prompt)
        /\ Answered(q, 400)

\* C16: sending the response is the last thing a handler does.  A request
\* that has been answered is done, and no later step adds a call, a
\* settlement or a response to it; and a request answered 200 has seen every
\* one of its stages succeed (the temporary upload too when remix has a
\* file) and none fail.
C16_ResponseIsLast ==
    /\ [](\A r \in Reqs :
            /\ Len(responses[r]) > 0 => Done(r)
            /\ Answered(r, 200) =>
                 /\ \A op \in {"gen", "fetch", "sharp", "upload"} :
                      Cardinality(Events(r, op, "ok")) = 1
                 /\ (req[r].kind = "remix" /\ req[r].file # Undef) =>
                      Cardinality(Events(r, "temp", "ok")) = 1
                 /\ \A i \in DOMAIN log[r] : ~IsFailure(log[r][i]))
    /\ [][\A r \in Reqs :
            Len(responses[r]) > 0 =>
                /\ log'[r] = log[r]
                /\ responses'[r] = responses[r]
                /\ pc'[r] = pc[r]]_vars

\* C16 witness: a generate request answered 200 after its four stages,
\* while the other request is still running.
C16_Witness ==
    \E r, q \in Reqs :
        /\ req[r].kind = "generate" /\ Len(log[r]) = 8 /\ Answered(r, 200)
        /\ Arrived(q) /\ ~Done(q)
====
